---- MODULE Spec2Model ----
(***************************************************************************)
(* A model of the synchronization core of diasend-nightscout-bridge        *)
(* (src/index.ts): the treatment identifier, the entries cycle, the        *)
(* treatments+profile cycle, the start of the pump settings loop and the   *)
(* Loopers that drive the cycles.                                          *)
(*                                                                         *)
(* Time is counted in seconds.  A record is [id, type, device, at]: id is  *)
(* the identity of the JavaScript object (what Array.indexOf compares),    *)
(* at is created_at.                                                       *)
(*                                                                         *)
(* The Looper, the adapter's resolver and the source are imported by       *)
(* index.ts from ./Looper, ./adapter and ./diasend; they are modelled here *)
(* from their description: the resolver throws for an arbitrary set of     *)
(* records, the source answers with any records of the window, and a       *)
(* Looper whose step failed either goes on with its state or ends.         *)
(***************************************************************************)
EXTENDS Integers, Sequences, FiniteSets, TLC

\* ------------------------------------------------------------------ bounds
\* longest batch handed to identifyTreatments when it is checked on its own
MaxLen == 3
\* latest created_at of a record of the source
MaxTime == 3
\* number of records the source holds when one loop is checked
NumSource == 5
\* number of records the source holds when both loops are checked together
NumSourceSync == 2

\* ------------------------------------------------------------ record types
RecordTypes == {"glucose", "carb", "insulin_bolus", "insulin_basal"}
Devices == {1, 2}

\* ["insulin_bolus", "carb"].includes(record.type)
IsCarbOrBolus(record) == record.type \in {"insulin_bolus", "carb"}

SeqToSet(s) == {s[i] : i \in 1..Len(s)}

\* ------------------------------------- the adapter's resolver (src/adapter)
\* Two records correlate when they are of complementary kinds, of the same
\* device and close in time.
Proximity == 1

Abs(n) == IF n < 0 THEN -n ELSE n

Correlates(a, b) ==
    /\ a.id # b.id
    /\ a.type = "insulin_bolus"
    /\ b.type = "carb"
    /\ a.device = b.device
    /\ Abs(a.at - b.at) <= Proximity

\* The carb record a bolus record is resolved with: the first one of the
\* context that correlates (no tie-break other than the order of the batch).
\* The result is the set holding that record, or the empty set.
CounterpartOf(bolus, allRecords) ==
    LET hits == {i \in 1..Len(allRecords) : Correlates(bolus, allRecords[i])}
    IN  {allRecords[i] : i \in {h \in hits : \A j \in hits : h <= j}}

\* diasendRecordToNightscoutTreatment(record, allRecords): "throw", no
\* treatment, or one treatment with the records it was made from.
\* `failing` is the set of records whose resolution throws.
diasendRecordToNightscoutTreatment(record, allRecords, failing) ==
    IF record \in failing THEN [kind |-> "throw"]
    ELSE IF record.type = "insulin_bolus" THEN
        LET carbs == CounterpartOf(record, allRecords)
        IN  IF carbs = {}
            THEN [kind |-> "treatment",
                  treatment |-> [eventType |-> "Correction Bolus",
                                 from |-> {record}]]
            ELSE [kind |-> "treatment",
                  treatment |-> [eventType |-> "Meal Bolus",
                                 from |-> {record} \cup carbs]]
    ELSE IF \E i \in 1..Len(allRecords) :
              /\ allRecords[i].type = "insulin_bolus"
              /\ record \in CounterpartOf(allRecords[i], allRecords)
         \* the carbs are part of the bolus record's Meal Bolus
         THEN [kind |-> "undefined"]
         ELSE [kind |-> "treatment",
               treatment |-> [eventType |-> "Carb Correction",
                              from |-> {record}]]

\* ------------------------------------------------------ identifyTreatments
\* records.filter(...): the carb and bolus records, in the order of the batch
FilterCarbOrBolus(records) == SelectSeq(records, IsCarbOrBolus)

EmptyIdentified(allRecords) ==
    [treatments |-> <<>>, unprocessedRecords |-> <<>>,
     raised |-> FALSE, attempted |-> <<>>, context |-> allRecords]

\* the catch block dropped: the error leaves identifyTreatments
OnThrowAbort(acc, record) == [acc EXCEPT !.raised = TRUE]

\* the catch block swallows the error and forgets the record
OnThrowForget(acc, record) == acc

\* catch (e) { unprocessedRecords.push(record) }
OnThrow(acc, record) ==
    [acc EXCEPT !.unprocessedRecords = Append(@, record)]

\* if (treatment) { treatments.push(treatment) }
OnResult(acc, out) ==
    IF out.kind = "treatment"
    THEN [acc EXCEPT !.treatments = Append(@, out.treatment)]
    ELSE acc

\* the reduce callback, for the record at index i of the filtered array
ReduceStep(acc, i, allRecords, failing) ==
    LET record == allRecords[i]
        out == diasendRecordToNightscoutTreatment(record, allRecords, failing)
        tried == [acc EXCEPT !.attempted = Append(@, record)]
    IN  IF out.kind = "throw" THEN OnThrow(tried, record)
        ELSE OnResult(tried, out)

RECURSIVE Reduce(_, _, _, _)
Reduce(acc, i, allRecords, failing) ==
    IF i > Len(allRecords) \/ acc.raised THEN acc
    ELSE Reduce(ReduceStep(acc, i, allRecords, failing), i + 1,
                allRecords, failing)

\* the array the reduce callback gets as its fourth argument is the array
\* reduce was called on: the filtered one
identifyTreatments(records, failing) ==
    LET allRecords == FilterCarbOrBolus(records)
    IN  Reduce(EmptyIdentified(allRecords), 1, allRecords, failing)

\* ------------------------------------------------------------- the source
NoDate == -1
\* the dateFrom startSynchronization is called with
InitialDateFrom == 0

TypeOfId(i) ==
    CASE i % 4 = 1 -> "insulin_bolus"
      [] i % 4 = 2 -> "glucose"
      [] i % 4 = 3 -> "carb"
      [] OTHER     -> "insulin_basal"

\* the records a source of n records holds
SourceRecords(n) ==
    {[id |-> i, type |-> TypeOfId(i), device |-> 1 + (((i - 1) \div 4) % 2),
      at |-> 1 + ((i \div 2) % MaxTime)] : i \in 1..n}

\* getPatientData(token, dateFrom, dateTo): the records of the window
InWindow(record, dateFrom, dateTo) ==
    /\ record.at >= dateFrom
    /\ dateTo = NoDate \/ record.at < dateTo

RECURSIVE SetToSeqById(_)
SetToSeqById(S) ==
    IF S = {} THEN <<>>
    ELSE LET first == CHOOSE r \in S : \A q \in S : r.id <= q.id
         IN  <<first>> \o SetToSeqById(S \ {first})

\* ------------------------------------------------------------- the Looper
NewLooper ==
    [status |-> "new", stopRequested |-> FALSE, state |-> <<>>,
     returned |-> <<>>, inFlight |-> 0]

\* .loop(initialState): the first step is invoked at once
LooperLoop(looper, initialState) ==
    [looper EXCEPT !.status = "running", !.state = initialState,
                   !.inFlight = @ + 1]

\* the next step is invoked after the last one settled and the interval
\* passed, unless stop was requested
LooperMayInvoke(looper) ==
    /\ looper.status = "waiting"
    /\ ~looper.stopRequested

LooperInvoke(looper) ==
    [looper EXCEPT !.status = "running", !.inFlight = @ + 1]

\* the step returned: its result is the state of the next step
LooperStepReturned(looper, state) ==
    [looper EXCEPT !.status = "waiting", !.state = state,
                   !.returned = <<state>>, !.inFlight = @ - 1]

\* the step failed: the loop goes on with the state unchanged, or ends
LooperStepFailed(looper, goOn) ==
    [looper EXCEPT !.status = IF goOn THEN "waiting" ELSE "terminated",
                   !.returned = <<>>, !.inFlight = @ - 1]

\* .stop()
LooperStop(looper) == [looper EXCEPT !.stopRequested = TRUE]

\* ------------------------------------------------------ getDiasendPatientData
\* if (!diasendUsername) throw ...; if (!diasendPassword) throw ...
CredentialsConfigured(args) == args.diasendUsername /\ args.diasendPassword

\* ------------------------------------------------- syncDiasendDataToNightscout
\* the filter left out
WithGlucose(records) == records

\* .filter((r) => r.type !== "glucose")
IsNotGlucose(record) == record.type # "glucose"
WithoutGlucose(records) == SelectSeq(records, IsNotGlucose)

\* records.sort((r1, r2) => dayjs(r2.created_at).diff(r1.created_at)): in
\* place, stable, latest first
RECURSIVE InsertByDateDesc(_, _)
InsertByDateDesc(sorted, record) ==
    IF sorted = <<>> THEN <<record>>
    ELSE IF Head(sorted).at >= record.at
         THEN <<Head(sorted)>> \o InsertByDateDesc(Tail(sorted), record)
         ELSE <<record>> \o sorted

RECURSIVE SortByDateDesc(_)
SortByDateDesc(records) ==
    IF records = <<>> THEN <<>>
    ELSE InsertByDateDesc(SortByDateDesc(SubSeq(records, 1, Len(records) - 1)),
                          records[Len(records)])

\* records.length > 0 ? new Date(records.sort(...)[0].created_at) : null
LatestRecordDate(records) ==
    IF Len(records) > 0 THEN SortByDateDesc(records)[1].at ELSE NoDate

\* records.unshift(...previousRecords)
WithPreviousRecords(records, previousRecords) == previousRecords \o records

\* the filter left out: everything that threw is carried forward
UnprocessedUnfiltered(unprocessedRecords, previousRecords) ==
    unprocessedRecords

\* unprocessedRecords.filter((record) => previousRecords.indexOf(record) === -1)
UnprocessedForNextRun(unprocessedRecords, previousRecords) ==
    LET isNew(record) == record \notin SeqToSet(previousRecords)
    IN  SelectSeq(unprocessedRecords, isNew)

\* ------------------------------------------------------------- the profile
\* nightscoutProfileName = config.nightscout.profileName!: the key the update
\* is stored under; a name that is not configured is the key "undefined"
ProfileNameOf(args) ==
    IF args.nightscoutProfileName THEN "diasend" ELSE "undefined"

\* the profile the sink holds at first: the default one only
InitialProfile ==
    [defaultProfile |-> "Default",
     store |-> [n \in {"Default"} |->
                  [basal |-> {[time |-> 0, value |-> 0]}, sens |-> 0]]]

\* .filter((record) => record.type === "insulin_basal")
IsBasal(record) == record.type = "insulin_basal"

\* the time of day and the rate of a basal record
TimeOfDay(record) == record.at % 2
BasalEntryOf(record) == [time |-> TimeOfDay(record), value |-> record.id]

\* updateBasalProfile(basal, basalRecords): the entries of the records replace
\* the entries of the same time of day, the latest record of a time winning
updateBasalProfile(basal, basalRecords) ==
    LET observed == SeqToSet(basalRecords)
        latest(r) == \A q \in observed :
                         TimeOfDay(q) = TimeOfDay(r) =>
                             \/ q.at < r.at
                             \/ q.at = r.at /\ q.id <= r.id
        fresh == {BasalEntryOf(r) : r \in {q \in observed : latest(q)}}
    IN  fresh \cup {e \in basal : \A f \in fresh : f.time # e.time}

\* existingProfileConfig = name in store ? store[name] : store[defaultProfile]
ExistingProfileConfig(existingProfile, nightscoutProfileName) ==
    IF nightscoutProfileName \in DOMAIN existingProfile.store
    THEN existingProfile.store[nightscoutProfileName]
    ELSE existingProfile.store[existingProfile.defaultProfile]

\* the store rebuilt with the updated entry only
UpdatedProfileStoreRebuilt(existingProfile, nightscoutProfileName, records) ==
    LET existingProfileConfig ==
            ExistingProfileConfig(existingProfile, nightscoutProfileName)
        updatedBasalProfile ==
            updateBasalProfile(existingProfileConfig.basal,
                               SelectSeq(records, IsBasal))
    IN  [existingProfile EXCEPT
            !.store = [n \in {nightscoutProfileName} |->
                          [existingProfileConfig EXCEPT
                              !.basal = updatedBasalProfile]]]

\* { ...existingProfile, store: { ...existingProfile.store,
\*   [nightscoutProfileName]: { ...existingProfileConfig, basal: updated } } }
UpdatedProfile(existingProfile, nightscoutProfileName, records) ==
    LET existingProfileConfig ==
            ExistingProfileConfig(existingProfile, nightscoutProfileName)
        basalRecords == SelectSeq(records, IsBasal)
        updatedBasalProfile ==
            updateBasalProfile(existingProfileConfig.basal, basalRecords)
    IN  [existingProfile EXCEPT
            !.store = [n \in DOMAIN @ \cup {nightscoutProfileName} |->
                          IF n = nightscoutProfileName
                          THEN [existingProfileConfig EXCEPT
                                   !.basal = updatedBasalProfile]
                          ELSE @[n]]]

\* the basal schedule and the sensitivity the pump is set to
PumpBasal == {[time |-> 0, value |-> 9], [time |-> 1, value |-> 9]}
PumpSens == 1

\* updateNightScoutProfileWithPumpSettings(profile, pumpSettings,
\* { importBasalRate, nightscoutProfileName }): the settings of the pump are
\* written into the entry of that name
updateNightScoutProfileWithPumpSettings(profile, nightscoutProfileName) ==
    LET existingProfileConfig ==
            ExistingProfileConfig(profile, nightscoutProfileName)
    IN  [profile EXCEPT
            !.store = [n \in DOMAIN @ \cup {nightscoutProfileName} |->
                          IF n = nightscoutProfileName
                          THEN [existingProfileConfig EXCEPT
                                   !.basal = PumpBasal, !.sens = PumpSens]
                          ELSE @[n]]]

\* the cycle with the records dated after previousRecords were added
TreatmentsProcessedDatedByBatch(cycle, fetched, failing) ==
    LET fresh == SortByDateDesc(WithoutGlucose(fetched))
        records == WithPreviousRecords(fresh, cycle.args.previousRecords)
    IN  [cycle EXCEPT !.pc = "loadingProfile",
                      !.fetched = fetched,
                      !.failing = failing,
                      !.records = records,
                      !.latestRecordDate = LatestRecordDate(records),
                      !.identified = <<identifyTreatments(records, failing)>>]

\* the cycle with the treatments handler called before the profile is loaded
TreatmentsProcessedReportsFirst(cycle, fetched, failing) ==
    LET fresh == SortByDateDesc(WithoutGlucose(fetched))
        records == WithPreviousRecords(fresh, cycle.args.previousRecords)
    IN  [cycle EXCEPT !.pc = "loadingProfile",
                      !.fetched = fetched,
                      !.failing = failing,
                      !.records = records,
                      !.latestRecordDate = LatestRecordDate(WithoutGlucose(fetched)),
                      !.identified = <<identifyTreatments(records, failing)>>,
                      !.treatmentsCall = "pending"]

\* the locals of a cycle of the treatments loop once the source has answered
TreatmentsProcessed(cycle, fetched, failing) ==
    LET fresh == SortByDateDesc(WithoutGlucose(fetched))
        records == WithPreviousRecords(fresh, cycle.args.previousRecords)
    IN  [cycle EXCEPT !.pc = "loadingProfile",
                      !.fetched = fetched,
                      !.failing = failing,
                      !.records = records,
                      !.latestRecordDate = LatestRecordDate(WithoutGlucose(fetched)),
                      !.identified = <<identifyTreatments(records, failing)>>]

\* ------------------------------------------------------ startSynchronization
\* the cursor set to the latest record's date itself
NextDateFromSameSecond(latestRecordDate, dateFrom) ==
    IF latestRecordDate # NoDate THEN latestRecordDate ELSE dateFrom

\* latestRecordDate ? dayjs(latestRecordDate).add(1, "second").toDate()
\*                  : args.dateFrom
NextDateFrom(latestRecordDate, dateFrom) ==
    IF latestRecordDate # NoDate THEN latestRecordDate + 1 ELSE dateFrom

\* the records that were tried again are carried on as well
TreatmentsNextStateCarriesAll(cycle) ==
    [cycle.args EXCEPT
        !.dateTo = NoDate,
        !.dateFrom = NextDateFrom(cycle.latestRecordDate, cycle.args.dateFrom),
        !.previousRecords = cycle.identified[1].unprocessedRecords]

\* what the step of the treatments loop returns: args without dateTo, the new
\* dateFrom and the records to try again
TreatmentsNextState(cycle) ==
    [cycle.args EXCEPT
        !.dateTo = NoDate,
        !.dateFrom = NextDateFrom(cycle.latestRecordDate, cycle.args.dateFrom),
        !.previousRecords =
            UnprocessedForNextRun(cycle.identified[1].unprocessedRecords,
                                  cycle.args.previousRecords)]

\* ------------------------------------------------ syncDiasendGlucoseToNightscout
IsGlucose(record) == record.type = "glucose"

\* diasendGlucoseRecordToNightscoutEntry(record): one entry per record, dated
\* as the record
GlucoseRecordToEntry(record) == [date |-> record.at, of |-> record.id]

\* records.filter(glucose).map(diasendGlucoseRecordToNightscoutEntry)
RECURSIVE MapToEntries(_)
MapToEntries(records) ==
    IF records = <<>> THEN <<>>
    ELSE <<GlucoseRecordToEntry(Head(records))>> \o MapToEntries(Tail(records))

NightscoutEntries(fetched) == MapToEntries(SelectSeq(fetched, IsGlucose))

\* entries.length > 0 ? new Date(entries.sort(...)[0].date) : null, over the
\* entries the handler returned
LatestEntryDate(entries) ==
    IF entries # {} THEN CHOOSE d \in {e.date : e \in entries} :
                             \A e \in entries : e.date <= d
    ELSE NoDate

\* the state returned with the dateTo the step was given
EntriesNextStateWithDateTo(cycle) ==
    [cycle.args EXCEPT
        !.dateFrom = NextDateFrom(cycle.latestRecordDate, cycle.args.dateFrom)]

\* what the step of the entries loop returns
EntriesNextState(cycle) ==
    [cycle.args EXCEPT
        !.dateTo = NoDate,
        !.dateFrom = NextDateFrom(cycle.latestRecordDate, cycle.args.dateFrom)]

\* the locals of a step that has just been invoked: getDiasendPatientData
\* throws at once when the credentials are missing
IdleCycle ==
    [pc |-> "idle", args |-> <<>>, fetched |-> <<>>, failing |-> {},
     records |-> <<>>,
     latestRecordDate |-> NoDate, identified |-> <<>>, entries |-> <<>>,
     returnedEntries |-> {}, treatmentsCall |-> "none", profileCall |-> "none",
     entriesCall |-> "none", existingProfile |-> <<>>, updatedProfile |-> <<>>,
     overwrote |-> FALSE, failedAt |-> "none", first |-> FALSE,
     handedBefore |-> {}, handedInReturned |-> {},
     afterStop |-> FALSE, stopDuring |-> FALSE]

\* a step that calls the cycle without the state it was given
BeginCycleWithoutState(args, stopped) ==
    [IdleCycle EXCEPT
        !.pc = IF CredentialsConfigured(args) THEN "fetching" ELSE "throwing",
        !.args = [args EXCEPT !.dateFrom = InitialDateFrom],
        !.afterStop = stopped]

\* the step: async ({ dateTo, ...args } = {}) => sync...({ dateTo, ...args })
BeginCycle(args, stopped) ==
    [IdleCycle EXCEPT
        !.pc = IF CredentialsConfigured(args) THEN "fetching" ELSE "throwing",
        !.args = args,
        !.afterStop = stopped]

InFlight(cycle) ==
    cycle.pc \in {"throwing", "fetching", "loadingProfile", "reporting"}

\* ------------------------------------------ startPumpSettingsSynchronization
\* the locals of a step of the pump settings loop
IdlePumpCycle ==
    [pc |-> "idle", existingProfile |-> <<>>, updatedProfile |-> <<>>,
     overwrote |-> FALSE]

\* the step begins with await getAuthenticatedScrapingClient(...)
BeginPumpCycle == [IdlePumpCycle EXCEPT !.pc = "authenticating"]

\* ------------------------------------------------------------------- state
VARIABLES
    idIn,       \* identifyTreatments on its own: the batch and who throws
    idOut,      \* ... and what it returned: <<>> before the call, <<result>> after
    source,     \* the records the source holds
    config,     \* the arguments of startSynchronization over the configuration
    started,    \* startSynchronization has been called
    stopCalled, \* the function it returned has been called
    entriesLoop,        \* the Looper "Entries"
    entriesCycle,       \* the locals of its step in flight (or last run)
    treatmentsLoop,     \* the Looper "Treatments"
    treatmentsCycle,    \* the locals of its step in flight (or last run)
    sinkProfile,        \* the profile the sink holds
    pumpSettings,       \* startPumpSettingsSynchronization: how it ended
    pumpLoop,           \* the Looper "PumpSettings"
    pumpCycle           \* the locals of its step in flight (or last run)

idVars == <<idIn, idOut>>
entriesVars == <<entriesLoop, entriesCycle>>
treatmentsVars == <<treatmentsLoop, treatmentsCycle>>
pumpVars == <<pumpSettings, pumpLoop, pumpCycle>>
vars == <<idIn, idOut, source, config, started, stopCalled, entriesLoop,
          entriesCycle, treatmentsLoop, treatmentsCycle, sinkProfile,
          pumpSettings, pumpLoop, pumpCycle>>

\* ------------------------------------------------------------ initial states
Configs ==
    [diasendUsername : BOOLEAN, diasendPassword : BOOLEAN,
     nightscoutProfileName : BOOLEAN, dateTo : {NoDate, MaxTime}]

\* { dateFrom, ...syncArgs }
InitialTreatmentsState ==
    [dateFrom |-> InitialDateFrom, dateTo |-> config.dateTo,
     previousRecords |-> <<>>,
     diasendUsername |-> config.diasendUsername,
     diasendPassword |-> config.diasendPassword,
     nightscoutProfileName |-> config.nightscoutProfileName]

InitialEntriesState ==
    [dateFrom |-> InitialDateFrom, dateTo |-> config.dateTo,
     diasendUsername |-> config.diasendUsername,
     diasendPassword |-> config.diasendPassword]

InitNotStarted ==
    /\ idIn = [records |-> <<>>, failing |-> {}]
    /\ idOut = <<>>
    /\ started = FALSE
    /\ stopCalled = FALSE
    /\ entriesLoop = NewLooper
    /\ entriesCycle = IdleCycle
    /\ treatmentsLoop = NewLooper
    /\ treatmentsCycle = IdleCycle
    /\ sinkProfile = InitialProfile
    /\ pumpSettings = "notCalled"
    /\ pumpLoop = NewLooper
    /\ pumpCycle = IdlePumpCycle

\* ------------------------------------------------------ startSynchronization
\* both Loopers are made and looped; each invokes its first step at once
StartSynchronization ==
    /\ ~started
    /\ started' = TRUE
    /\ entriesLoop' = LooperLoop(entriesLoop, InitialEntriesState)
    /\ entriesCycle' =
         [BeginCycle(InitialEntriesState, FALSE) EXCEPT !.first = TRUE]
    /\ treatmentsLoop' = LooperLoop(treatmentsLoop, InitialTreatmentsState)
    /\ treatmentsCycle' =
         [BeginCycle(InitialTreatmentsState, FALSE) EXCEPT !.first = TRUE]
    /\ UNCHANGED <<idVars, source, config, stopCalled, sinkProfile,
                   pumpVars>>

\* entriesLoop.stop() only
StopEntriesOnly ==
    /\ entriesLoop' = LooperStop(entriesLoop)
    /\ treatmentsLoop' = treatmentsLoop

\* () => { entriesLoop.stop(); treatmentsLoop.stop(); }
StopLoops ==
    /\ entriesLoop' = LooperStop(entriesLoop)
    /\ treatmentsLoop' = LooperStop(treatmentsLoop)

StopSynchronization ==
    /\ started
    /\ ~stopCalled
    /\ stopCalled' = TRUE
    /\ StopLoops
    /\ entriesCycle' =
         [entriesCycle EXCEPT !.stopDuring = InFlight(entriesCycle)]
    /\ treatmentsCycle' =
         [treatmentsCycle EXCEPT !.stopDuring = InFlight(treatmentsCycle)]
    /\ UNCHANGED <<idVars, source, config, started, sinkProfile,
                   pumpVars>>

\* --------------------------------------------- startPumpSettingsSynchronization
PumpSettingsStart(cfg) ==
    IF ~cfg.diasendUsername \/ ~cfg.diasendPassword THEN "threw"
    ELSE IF ~cfg.nightscoutProfileName THEN "notStarted"
    ELSE "looping"

\* the Looper is made and looped when nothing is missing; its first step is
\* invoked at once
StartPumpSettingsSynchronization ==
    /\ pumpSettings = "notCalled"
    /\ pumpSettings' = PumpSettingsStart(config)
    /\ IF PumpSettingsStart(config) = "looping"
       THEN /\ pumpLoop' = LooperLoop(pumpLoop, <<>>)
            /\ pumpCycle' = BeginPumpCycle
       ELSE UNCHANGED <<pumpLoop, pumpCycle>>
    /\ UNCHANGED <<idVars, source, config, started, stopCalled, entriesVars,
                   treatmentsVars, sinkProfile>>

\* ----------------------------------------------------- the pump settings loop
\* a write of updated, made from the profile loaded, replaces the profile held
\* and is not what the same update of the profile held would have written
Overwrites(held, loaded, updated, remade) ==
    /\ held # loaded
    /\ updated # remade

PumpFrame ==
    UNCHANGED <<idVars, source, config, started, stopCalled, entriesVars,
                treatmentsVars, pumpSettings>>

PumpStepBegin ==
    /\ LooperMayInvoke(pumpLoop)
    /\ pumpLoop' = LooperInvoke(pumpLoop)
    /\ pumpCycle' = BeginPumpCycle
    /\ UNCHANGED sinkProfile
    /\ PumpFrame

\* getAuthenticatedScrapingClient answers
PumpAuthenticated ==
    /\ pumpCycle.pc = "authenticating"
    /\ pumpCycle' = [pumpCycle EXCEPT !.pc = "scraping"]
    /\ UNCHANGED <<pumpLoop, sinkProfile>>
    /\ PumpFrame

\* getPumpSettings answers
PumpSettingsScraped ==
    /\ pumpCycle.pc = "scraping"
    /\ pumpCycle' = [pumpCycle EXCEPT !.pc = "loadingProfile"]
    /\ UNCHANGED <<pumpLoop, sinkProfile>>
    /\ PumpFrame

\* nightscoutProfileLoader() answers with the profile of the sink; the update
\* is made from it and the handler is called
PumpProfileLoaded ==
    /\ pumpCycle.pc = "loadingProfile"
    /\ pumpCycle' =
         [pumpCycle EXCEPT
            !.pc = "updating",
            !.existingProfile = <<sinkProfile>>,
            !.updatedProfile =
                <<updateNightScoutProfileWithPumpSettings(
                      sinkProfile, ProfileNameOf(config))>>]
    /\ UNCHANGED <<pumpLoop, sinkProfile>>
    /\ PumpFrame

\* nightscoutProfileHandler(updatedNightscoutProfile) fulfils: the sink holds
\* the profile it was given and the step returns
PumpCycleReturns ==
    /\ pumpCycle.pc = "updating"
    /\ pumpCycle' =
         [pumpCycle EXCEPT
            !.pc = "returned",
            !.overwrote =
                Overwrites(sinkProfile, pumpCycle.existingProfile[1],
                           pumpCycle.updatedProfile[1],
                           updateNightScoutProfileWithPumpSettings(
                               sinkProfile, ProfileNameOf(config)))]
    /\ sinkProfile' = pumpCycle.updatedProfile[1]
    /\ pumpLoop' = LooperStepReturned(pumpLoop, <<>>)
    /\ PumpFrame

\* one of the awaits of the step rejects
PumpCycleRejects ==
    /\ pumpCycle.pc \in {"authenticating", "scraping", "loadingProfile",
                         "updating"}
    /\ pumpCycle' = [pumpCycle EXCEPT !.pc = "rejected"]
    /\ \E goOn \in BOOLEAN : pumpLoop' = LooperStepFailed(pumpLoop, goOn)
    /\ UNCHANGED sinkProfile
    /\ PumpFrame

\* ------------------------------------------------------- the treatments loop
\* what a step of the treatments loop leaves alone, a write to the sink apart
TreatmentsWriteFrame ==
    UNCHANGED <<idVars, source, config, started, stopCalled, entriesVars,
                pumpVars>>

TreatmentsFrame ==
    /\ TreatmentsWriteFrame
    /\ UNCHANGED sinkProfile

\* the records of previousRecords a cycle handed to the identifier
HandedOn(cycle) ==
    IF cycle.identified # <<>> THEN SeqToSet(cycle.args.previousRecords) ELSE {}

\* the next step is invoked; of the records it carries, handedBefore are
\* those an earlier cycle has already tried again, handedInReturned those an
\* earlier cycle that returned has
TreatmentsStepBegin ==
    /\ LooperMayInvoke(treatmentsLoop)
    /\ treatmentsLoop' = LooperInvoke(treatmentsLoop)
    /\ LET carried == SeqToSet(treatmentsLoop.state.previousRecords)
       IN  treatmentsCycle' =
             [BeginCycle(treatmentsLoop.state, stopCalled) EXCEPT
                !.handedBefore =
                    (treatmentsCycle.handedBefore \cup HandedOn(treatmentsCycle))
                        \cap carried,
                !.handedInReturned =
                    (treatmentsCycle.handedInReturned \cup
                        (IF treatmentsCycle.pc = "returned"
                         THEN HandedOn(treatmentsCycle) ELSE {}))
                        \cap carried]
    /\ TreatmentsFrame

TreatmentsRejected(goOn, stage) ==
    /\ treatmentsLoop' = LooperStepFailed(treatmentsLoop, goOn)
    /\ treatmentsCycle' = [treatmentsCycle EXCEPT !.pc = "rejected",
                                                  !.failedAt = stage]

\* getDiasendPatientData threw "... not configured"
TreatmentsCredentialError ==
    /\ treatmentsCycle.pc = "throwing"
    /\ \E goOn \in BOOLEAN : TreatmentsRejected(goOn, "credentials")
    /\ TreatmentsFrame

\* the source answers; the records are filtered, dated and identified
TreatmentsFetched ==
    /\ treatmentsCycle.pc = "fetching"
    /\ \E F \in SUBSET {r \in source : InWindow(r, treatmentsCycle.args.dateFrom,
                                                treatmentsCycle.args.dateTo)} :
       \E failing \in SUBSET {r \in F \cup SeqToSet(treatmentsCycle.args.previousRecords) :
                                 IsCarbOrBolus(r)} :
          treatmentsCycle' =
              TreatmentsProcessed(treatmentsCycle, SetToSeqById(F), failing)
    /\ UNCHANGED treatmentsLoop
    /\ TreatmentsFrame

\* obtainDiasendAccessToken or getPatientData rejects
TreatmentsFetchFailed ==
    /\ treatmentsCycle.pc = "fetching"
    /\ \E goOn \in BOOLEAN : TreatmentsRejected(goOn, "fetch")
    /\ TreatmentsFrame

\* nightscoutProfileLoader() answers with the profile of the sink; the update
\* is made from it, both handlers are called, then Promise.all awaits them
TreatmentsProfileLoaded ==
    /\ treatmentsCycle.pc = "loadingProfile"
    /\ treatmentsCycle' =
         [treatmentsCycle EXCEPT
            !.pc = "reporting",
            !.existingProfile = <<sinkProfile>>,
            !.updatedProfile =
                <<UpdatedProfile(sinkProfile,
                                 ProfileNameOf(treatmentsCycle.args),
                                 treatmentsCycle.records)>>,
            !.treatmentsCall = "pending",
            !.profileCall = "pending"]
    /\ UNCHANGED treatmentsLoop
    /\ TreatmentsFrame

TreatmentsProfileLoadFailed ==
    /\ treatmentsCycle.pc = "loadingProfile"
    /\ \E goOn \in BOOLEAN : TreatmentsRejected(goOn, "profileLoad")
    /\ TreatmentsFrame

\* nightscoutTreatmentsHandler(nightscoutTreatments) settles
TreatmentsHandlerSettles ==
    /\ treatmentsCycle.pc = "reporting"
    /\ treatmentsCycle.treatmentsCall = "pending"
    /\ \E outcome \in {"fulfilled", "rejected"} :
          treatmentsCycle' = [treatmentsCycle EXCEPT !.treatmentsCall = outcome]
    /\ UNCHANGED treatmentsLoop
    /\ TreatmentsFrame

\* nightscoutProfileHandler(updatedProfile) settles: when it fulfils the sink
\* holds the profile it was given
ProfileHandlerSettles ==
    /\ treatmentsCycle.pc = "reporting"
    /\ treatmentsCycle.profileCall = "pending"
    /\ \E outcome \in {"fulfilled", "rejected"} :
          /\ treatmentsCycle' =
                [treatmentsCycle EXCEPT
                    !.profileCall = outcome,
                    !.overwrote =
                        /\ outcome = "fulfilled"
                        /\ Overwrites(sinkProfile,
                                      treatmentsCycle.existingProfile[1],
                                      treatmentsCycle.updatedProfile[1],
                                      UpdatedProfile(sinkProfile,
                                          ProfileNameOf(treatmentsCycle.args),
                                          treatmentsCycle.records))]
          /\ sinkProfile' = IF outcome = "fulfilled"
                            THEN treatmentsCycle.updatedProfile[1]
                            ELSE sinkProfile
    /\ UNCHANGED treatmentsLoop
    /\ TreatmentsWriteFrame

\* Promise.all rejects as soon as one of the calls rejects
PromiseAllRejects(cycle) ==
    "rejected" \in {cycle.treatmentsCall, cycle.profileCall}

\* Promise.all fulfils when both calls have
PromiseAllFulfils(cycle) ==
    /\ cycle.treatmentsCall = "fulfilled"
    /\ cycle.profileCall = "fulfilled"

\* the step returns { ...args, dateFrom, previousRecords }
TreatmentsCycleReturns ==
    /\ treatmentsCycle.pc = "reporting"
    /\ PromiseAllFulfils(treatmentsCycle)
    /\ treatmentsCycle' = [treatmentsCycle EXCEPT !.pc = "returned"]
    /\ treatmentsLoop' =
         LooperStepReturned(treatmentsLoop, TreatmentsNextState(treatmentsCycle))
    /\ TreatmentsFrame

\* the step rejects; a call still pending stays in flight
TreatmentsCycleRejects ==
    /\ treatmentsCycle.pc = "reporting"
    /\ PromiseAllRejects(treatmentsCycle)
    /\ \E goOn \in BOOLEAN : TreatmentsRejected(goOn, "report")
    /\ TreatmentsFrame

\* a handler call of a cycle that has rejected settles; a profile call that
\* fulfils has written its profile
OrphanSettles ==
    /\ treatmentsCycle.pc = "rejected"
    /\ \E outcome \in {"fulfilled", "rejected"} :
          \/ /\ treatmentsCycle.treatmentsCall = "pending"
             /\ treatmentsCycle' =
                   [treatmentsCycle EXCEPT !.treatmentsCall = outcome]
             /\ UNCHANGED sinkProfile
          \/ /\ treatmentsCycle.profileCall = "pending"
             /\ treatmentsCycle' =
                   [treatmentsCycle EXCEPT !.profileCall = outcome]
             /\ sinkProfile' = IF outcome = "fulfilled"
                               THEN treatmentsCycle.updatedProfile[1]
                               ELSE sinkProfile
    /\ UNCHANGED treatmentsLoop
    /\ TreatmentsWriteFrame

\* ---------------------------------------------------------- the entries loop
\* one state for both loops: the treatments loop goes on from the dateFrom
\* of the entries loop
EntriesFrameSharedState ==
    /\ treatmentsLoop' =
         IF treatmentsLoop.state # <<>> /\ entriesLoop'.state # <<>>
         THEN [treatmentsLoop EXCEPT
                  !.state.dateFrom = entriesLoop'.state.dateFrom]
         ELSE treatmentsLoop
    /\ UNCHANGED <<idVars, source, config, started, stopCalled,
                   treatmentsCycle, sinkProfile, pumpVars>>

EntriesFrame ==
    UNCHANGED <<idVars, source, config, started, stopCalled, treatmentsVars,
                sinkProfile, pumpVars>>

EntriesStepBegin ==
    /\ LooperMayInvoke(entriesLoop)
    /\ entriesLoop' = LooperInvoke(entriesLoop)
    /\ entriesCycle' = BeginCycle(entriesLoop.state, stopCalled)
    /\ EntriesFrame

EntriesRejected(goOn, stage) ==
    /\ entriesLoop' = LooperStepFailed(entriesLoop, goOn)
    /\ entriesCycle' = [entriesCycle EXCEPT
                           !.pc = "rejected", !.failedAt = stage,
                           !.entriesCall = IF stage = "report"
                                           THEN "rejected" ELSE @]

EntriesCredentialError ==
    /\ entriesCycle.pc = "throwing"
    /\ \E goOn \in BOOLEAN : EntriesRejected(goOn, "credentials")
    /\ EntriesFrame

\* the source answers; the glucose records are sent to the handler
EntriesFetched ==
    /\ entriesCycle.pc = "fetching"
    /\ \E F \in SUBSET {r \in source : InWindow(r, entriesCycle.args.dateFrom,
                                                entriesCycle.args.dateTo)} :
          entriesCycle' =
              [entriesCycle EXCEPT !.pc = "reporting",
                                   !.entriesCall = "pending",
                                   !.fetched = SetToSeqById(F),
                                   !.entries = NightscoutEntries(SetToSeqById(F))]
    /\ UNCHANGED entriesLoop
    /\ EntriesFrame

EntriesFetchFailed ==
    /\ entriesCycle.pc = "fetching"
    /\ \E goOn \in BOOLEAN : EntriesRejected(goOn, "fetch")
    /\ EntriesFrame

\* what a handler may answer: any of the entries of the sink
HandlerAnswers == SUBSET {GlucoseRecordToEntry(r) : r \in {q \in source : IsGlucose(q)}}

\* nightscoutEntriesHandler(nightscoutEntries) answers; the step returns
\* { ...args, dateFrom }
EntriesCycleReturns ==
    /\ entriesCycle.pc = "reporting"
    /\ \E answer \in HandlerAnswers :
        LET done == [entriesCycle EXCEPT !.pc = "returned",
                                         !.entriesCall = "fulfilled",
                                         !.returnedEntries = answer,
                                         !.latestRecordDate = LatestEntryDate(answer)]
        IN  /\ entriesCycle' = done
            /\ entriesLoop' = LooperStepReturned(entriesLoop, EntriesNextState(done))
    /\ EntriesFrame

EntriesHandlerFailed ==
    /\ entriesCycle.pc = "reporting"
    /\ \E goOn \in BOOLEAN : EntriesRejected(goOn, "report")
    /\ EntriesFrame

\* ------------------------------------------------------------ specifications
\* one loop on its own: the other one is started and not scheduled
InitOneLoop ==
    /\ InitNotStarted
    /\ source = SourceRecords(NumSource)
    /\ config \in Configs

NextTreatments ==
    \/ StartSynchronization
    \/ TreatmentsStepBegin
    \/ TreatmentsCredentialError
    \/ TreatmentsFetched
    \/ TreatmentsFetchFailed
    \/ TreatmentsProfileLoaded
    \/ TreatmentsProfileLoadFailed
    \/ TreatmentsHandlerSettles
    \/ ProfileHandlerSettles
    \/ TreatmentsCycleReturns
    \/ TreatmentsCycleRejects
    \/ OrphanSettles

SpecTreatments == InitOneLoop /\ [][NextTreatments]_vars

NextEntries ==
    \/ StartSynchronization
    \/ EntriesStepBegin
    \/ EntriesCredentialError
    \/ EntriesFetched
    \/ EntriesFetchFailed
    \/ EntriesCycleReturns
    \/ EntriesHandlerFailed

SpecEntries == InitOneLoop /\ [][NextEntries]_vars

\* both loops, the stop function and the pump settings, over a small source:
\* the complete configuration and every one with something missing
Init ==
    /\ InitNotStarted
    /\ source = SourceRecords(NumSourceSync)
    /\ config \in {c \in Configs :
                     /\ c.dateTo = NoDate
                     /\ (c.diasendUsername /\ c.diasendPassword)
                            => c.nightscoutProfileName}

Next ==
    \/ NextTreatments
    \/ NextEntries
    \/ StopSynchronization
    \/ StartPumpSettingsSynchronization

Spec == Init /\ [][Next]_vars

\* the treatments loop and the pump settings loop against one sink
NextPump ==
    \/ StartPumpSettingsSynchronization
    \/ PumpStepBegin
    \/ PumpAuthenticated
    \/ PumpSettingsScraped
    \/ PumpProfileLoaded
    \/ PumpCycleReturns
    \/ PumpCycleRejects

NextProfile ==
    \/ NextTreatments
    \/ NextPump

SpecProfile == Init /\ [][NextProfile]_vars

\* both loops called with a dateTo
InitWindow ==
    /\ InitNotStarted
    /\ source = SourceRecords(NumSourceSync)
    /\ config \in {c \in Configs :
                     /\ c.dateTo # NoDate
                     /\ c.diasendPassword
                     /\ c.nightscoutProfileName}

NextWindow ==
    \/ NextTreatments
    \/ NextEntries

SpecWindow == InitWindow /\ [][NextWindow]_vars

\* ----------------------------------------- identifyTreatments on its own
RecordAt(i) == [id : {i}, type : RecordTypes, device : Devices, at : 0..2]

RECURSIVE Batches(_)
Batches(n) ==
    IF n = 0 THEN {<<>>}
    ELSE LET shorter == Batches(n - 1)
         IN  shorter \cup {Append(b, r) : b \in {s \in shorter : Len(s) = n - 1},
                                          r \in RecordAt(n)}

InitIdentify ==
    /\ source = {}
    /\ config = CHOOSE c \in Configs : TRUE
    /\ started = FALSE
    /\ stopCalled = FALSE
    /\ entriesLoop = NewLooper
    /\ entriesCycle = IdleCycle
    /\ treatmentsLoop = NewLooper
    /\ treatmentsCycle = IdleCycle
    /\ sinkProfile = InitialProfile
    /\ pumpSettings = "notCalled"
    /\ pumpLoop = NewLooper
    /\ pumpCycle = IdlePumpCycle
    /\ \E records \in Batches(MaxLen) :
       \E failing \in SUBSET {r \in SeqToSet(records) : IsCarbOrBolus(r)} :
          idIn = [records |-> records, failing |-> failing]
    /\ idOut = <<>>

Identify ==
    /\ idOut = <<>>
    /\ idOut' = <<identifyTreatments(idIn.records, idIn.failing)>>
    /\ UNCHANGED <<idIn, source, config, started, stopCalled, entriesVars,
                   treatmentsVars, sinkProfile, pumpVars>>

NextIdentify == Identify

SpecIdentify == InitIdentify /\ [][NextIdentify]_vars

\* =================================================================== claims
\* what the call under check was given and gave back
IdCandidates == FilterCarbOrBolus(idIn.records)
IdContributors == UNION {t.from : t \in SeqToSet(idOut[1].treatments)}
IdUnprocessed == SeqToSet(idOut[1].unprocessedRecords)
IdOutcome(r) ==
    diasendRecordToNightscoutTreatment(r, IdCandidates, idIn.failing)

\* C1: identifyTreatments isolates per-record failures.  For every batch and
\* every set of carb/bolus records whose resolution throws, the call does not
\* raise, every failing record is in unprocessedRecords, every carb/bolus
\* record of the batch is handed to the resolver once, in order, and the
\* treatment of every record that resolves to one is emitted.
C1_FailuresIsolated ==
    idOut # <<>> =>
        /\ ~idOut[1].raised
        /\ \A r \in idIn.failing : r \in IdUnprocessed
        /\ idOut[1].attempted = IdCandidates
        /\ \A r \in SeqToSet(IdCandidates) \ idIn.failing :
              IdOutcome(r).kind = "treatment" =>
                  IdOutcome(r).treatment \in SeqToSet(idOut[1].treatments)

\* a record that throws is followed by a sibling whose treatment is emitted
C1_Witness ==
    /\ idOut # <<>>
    /\ \E i, j \in 1..Len(IdCandidates) :
          /\ i < j
          /\ IdCandidates[i] \in idIn.failing
          /\ IdCandidates[i] \in IdUnprocessed
          /\ IdCandidates[j] \notin idIn.failing
          /\ IdOutcome(IdCandidates[j]).kind = "treatment"
          /\ IdOutcome(IdCandidates[j]).treatment
                \in SeqToSet(idOut[1].treatments)

\* C2: partition completeness.  Every carb or bolus record of the batch is
\* either a contributor of an emitted treatment or in unprocessedRecords,
\* and never both.
C2_PartitionComplete ==
    idOut # <<>> =>
        \A r \in SeqToSet(IdCandidates) :
            (r \in IdContributors) # (r \in IdUnprocessed)

\* (used to read C2: without a throwing record the partition is complete)
PartitionCompleteWithoutFailure ==
    (idOut # <<>> /\ idIn.failing = {}) =>
        \A r \in SeqToSet(IdCandidates) :
            (r \in IdContributors) # (r \in IdUnprocessed)

\* ------------------------------------------------- the treatments loop
TReturned == treatmentsCycle.pc = "returned"
TPrevious == SeqToSet(treatmentsCycle.args.previousRecords)
TNextPrevious == SeqToSet(treatmentsLoop.state.previousRecords)
TFresh == WithoutGlucose(treatmentsCycle.fetched)
TContributors ==
    UNION {t.from : t \in SeqToSet(treatmentsCycle.identified[1].treatments)}
MaxAt(records) ==
    CHOOSE d \in {r.at : r \in records} : \A r \in records : r.at <= d

\* C3 (as claimed): after a successful cycle, every record whose resolution
\* failed in it and that was not resolved into a treatment is in the
\* previousRecords handed to the next cycle.
C3_FailedRecordsCarried ==
    TReturned =>
        \A r \in treatmentsCycle.failing \ TContributors : r \in TNextPrevious

\* C3 (amended): a record whose resolution fails in the cycle that fetched it
\* is in the previousRecords handed to the next cycle; a record that fails
\* again in the cycle it was carried into is not handed on again.
C3_FreshFailuresCarriedOnce ==
    TReturned =>
        \A r \in treatmentsCycle.failing :
            (r \in TNextPrevious) <=> (r \notin TPrevious)

\* a cycle in which a carried record fails again and a fresh one fails too
C3_Witness ==
    /\ TReturned
    /\ treatmentsCycle.failing \cap TPrevious # {}
    /\ treatmentsCycle.failing \ TPrevious # {}

\* C4: no record of a cycle's previousRecords is in the unprocessedRecords
\* the cycle returns for the next cycle.
C4_NoDuplicateCarryForward ==
    TReturned => TPrevious \cap TNextPrevious = {}

\* a carried record has thrown again in the cycle that returned
C4_Witness ==
    /\ TReturned
    /\ \E r \in TPrevious :
          /\ r \in treatmentsCycle.failing
          /\ r \in SeqToSet(treatmentsCycle.identified[1].unprocessedRecords)

\* C5 (as claimed): dateFrom never decreases; a cycle that processes at least
\* one record (fetched or carried forward) hands on a strictly greater
\* dateFrom, a cycle that processes none hands on the same.
C5_CursorAdvancesWhenProcessing ==
    TReturned =>
        /\ treatmentsLoop.state.dateFrom >= treatmentsCycle.args.dateFrom
        /\ treatmentsCycle.records # <<>> =>
              treatmentsLoop.state.dateFrom > treatmentsCycle.args.dateFrom
        /\ treatmentsCycle.records = <<>> =>
              treatmentsLoop.state.dateFrom = treatmentsCycle.args.dateFrom

\* C5 (amended): dateFrom never decreases; a cycle that fetches at least one
\* record other than glucose hands on the latest created_at of those records
\* plus one second, which is strictly greater; a cycle that fetches none
\* hands on the same dateFrom, whatever it carried forward.
C5_CursorFollowsFetched ==
    TReturned =>
        /\ treatmentsLoop.state.dateFrom >= treatmentsCycle.args.dateFrom
        /\ TFresh # <<>> =>
              /\ treatmentsLoop.state.dateFrom = MaxAt(SeqToSet(TFresh)) + 1
              /\ treatmentsLoop.state.dateFrom > treatmentsCycle.args.dateFrom
        /\ TFresh = <<>> =>
              treatmentsLoop.state.dateFrom = treatmentsCycle.args.dateFrom

\* a cycle that fetched two records of different dates, and one that fetched
\* none but worked on a carried record
C5_Witness ==
    /\ TReturned
    /\ \/ \E a, b \in SeqToSet(TFresh) : a.at < b.at
       \/ TFresh = <<>> /\ TPrevious # {}
    /\ treatmentsCycle.args.dateFrom > InitialDateFrom

\* ---------------------------------------------------- the entries loop
EReturned == entriesCycle.pc = "returned"
EGlucose == {r \in SeqToSet(entriesCycle.fetched) : IsGlucose(r)}

\* C6: after a successful entries cycle the next dateFrom is the latest date
\* of the glucose records of the cycle plus one second, or unchanged when
\* there was none; it never moves back, whatever the handler returns.
C6_EntriesCursorFromGlucose ==
    EReturned =>
        /\ entriesLoop.state.dateFrom >= entriesCycle.args.dateFrom
        /\ EGlucose # {} => entriesLoop.state.dateFrom = MaxAt(EGlucose) + 1
        /\ EGlucose = {} =>
              entriesLoop.state.dateFrom = entriesCycle.args.dateFrom

\* ------------------------------------------------------- Promise.all
\* C7: the treatment report and the profile update are dispatched together,
\* and the cycle finishes, with a result or an error, only after both calls
\* have settled.
C7_CycleEndsAfterBothSettle ==
    /\ treatmentsCycle.pc = "reporting" =>
          /\ treatmentsCycle.treatmentsCall # "none"
          /\ treatmentsCycle.profileCall # "none"
    /\ treatmentsCycle.pc \in {"returned", "rejected"} =>
          /\ treatmentsCycle.treatmentsCall # "pending"
          /\ treatmentsCycle.profileCall # "pending"

\* ---------------------------------------------------- configuration
\* C8: with the username, the password or the profile name missing, the
\* affected loop is never started: no cycle of it runs.
C8_NoCycleWithoutConfiguration ==
    /\ (~config.diasendUsername \/ ~config.diasendPassword) =>
          /\ entriesCycle.pc = "idle"
          /\ treatmentsCycle.pc = "idle"
          /\ pumpSettings # "looping"
    /\ ~config.nightscoutProfileName =>
          /\ treatmentsCycle.pc = "idle"
          /\ pumpSettings # "looping"

\* -------------------------------------------------------- the Loopers
StepsSequential(looper, cycle) ==
    /\ looper.inFlight <= 1
    /\ (InFlight(cycle) /\ looper.returned # <<>>) =>
          cycle.args = looper.returned[1]

\* C9: for each Looper at most one step is in flight, and a step that follows
\* a step that returned is invoked with exactly the state that step returned.
C9_StepsSequential ==
    /\ StepsSequential(entriesLoop, entriesCycle)
    /\ StepsSequential(treatmentsLoop, treatmentsCycle)

\* a later step of each kind runs on a state with an advanced dateFrom
C9_Witness ==
    /\ InFlight(treatmentsCycle)
    /\ treatmentsLoop.returned # <<>>
    /\ treatmentsCycle.args.dateFrom > InitialDateFrom
    /\ InFlight(entriesCycle)
    /\ entriesLoop.returned # <<>>

\* C10: after the stop function is called no loop starts a new cycle, and a
\* cycle in flight at that moment can still take each of its steps, its
\* reports to the sink included.
C10_StopIsCooperative ==
    /\ ~entriesCycle.afterStop
    /\ ~treatmentsCycle.afterStop
    /\ stopCalled =>
          /\ entriesCycle.pc = "fetching" => ENABLED EntriesFetched
          /\ entriesCycle.pc = "reporting" => ENABLED EntriesCycleReturns
          /\ treatmentsCycle.pc = "fetching" => ENABLED TreatmentsFetched
          /\ treatmentsCycle.pc = "loadingProfile" =>
                ENABLED TreatmentsProfileLoaded
          /\ (treatmentsCycle.pc = "reporting"
                /\ treatmentsCycle.treatmentsCall = "pending") =>
                ENABLED TreatmentsHandlerSettles
          /\ (treatmentsCycle.pc = "reporting"
                /\ PromiseAllFulfils(treatmentsCycle)) =>
                ENABLED TreatmentsCycleReturns

\* both loops were in flight when stop was called and have since returned
C10_Witness ==
    /\ stopCalled
    /\ treatmentsCycle.stopDuring
    /\ treatmentsCycle.pc = "returned"
    /\ entriesCycle.stopDuring
    /\ entriesCycle.pc = "returned"

\* ------------------------------------------------------- the profile update
\* the profile a treatments cycle loaded, the one it sent and the key it
\* stored its update under
TLoaded == treatmentsCycle.existingProfile[1]
TSent == treatmentsCycle.updatedProfile[1]
TTarget == ProfileNameOf(treatmentsCycle.args)
WithoutBasal(profileConfig) == [profileConfig EXCEPT !.basal = {}]

\* C11: the profile a treatments cycle sends to the sink is the profile it
\* loaded except for the entry named nightscoutProfileName: the default
\* profile name and every other entry of the store are as loaded, and the
\* target entry is the config the update started from (the named entry, or
\* the default one when the named one did not exist) with only its basal
\* schedule replaced by the merge of the cycle's basal records.
C11_ProfileUpdateKeepsTheRest ==
    treatmentsCycle.updatedProfile # <<>> =>
        /\ TSent.defaultProfile = TLoaded.defaultProfile
        /\ DOMAIN TSent.store = DOMAIN TLoaded.store \cup {TTarget}
        /\ \A n \in DOMAIN TLoaded.store \ {TTarget} :
              TSent.store[n] = TLoaded.store[n]
        /\ WithoutBasal(TSent.store[TTarget])
              = WithoutBasal(ExistingProfileConfig(TLoaded, TTarget))
        /\ TSent.store[TTarget].basal
              = updateBasalProfile(
                    ExistingProfileConfig(TLoaded, TTarget).basal,
                    SelectSeq(treatmentsCycle.records, IsBasal))

\* the named entry did not exist, a basal record was merged and the profile
\* was written
C11_Witness ==
    /\ treatmentsCycle.updatedProfile # <<>>
    /\ treatmentsCycle.profileCall = "fulfilled"
    /\ TTarget \notin DOMAIN TLoaded.store
    /\ \E r \in SeqToSet(treatmentsCycle.records) : IsBasal(r)
    /\ TSent.store[TTarget].basal # TLoaded.store[TLoaded.defaultProfile].basal
    /\ sinkProfile = TSent

\* ------------------------------------------------------- the empty window
\* C12: a cycle whose fetch returns no records reports zero entries and zero
\* treatments, hands on the dateFrom it was given, and can complete.
C12_EmptyFetchChangesNothing ==
    /\ (entriesCycle.pc \in {"reporting", "returned"}
          /\ entriesCycle.fetched = <<>>) =>
          /\ entriesCycle.entries = <<>>
          /\ entriesCycle.pc = "reporting" => ENABLED EntriesCycleReturns
          /\ EReturned =>
                entriesLoop.state.dateFrom = entriesCycle.args.dateFrom
    /\ (treatmentsCycle.identified # <<>> /\ treatmentsCycle.fetched = <<>>) =>
          /\ treatmentsCycle.identified[1].treatments = <<>>
          /\ treatmentsCycle.pc = "loadingProfile" =>
                ENABLED TreatmentsProfileLoaded
          /\ TReturned =>
                treatmentsLoop.state.dateFrom = treatmentsCycle.args.dateFrom

\* ------------------------------------------------------- the two loops
\* C13: a step of a cycle of one loop leaves the state and the cycle of the
\* other loop, its dateFrom and its previousRecords with them, as they were;
\* only the start and the stop function act on both.
C13_LoopsShareNoState ==
    [][(started' = started /\ stopCalled' = stopCalled) =>
          /\ entriesVars' # entriesVars => treatmentsVars' = treatmentsVars
          /\ treatmentsVars' # treatmentsVars => entriesVars' = entriesVars]_vars

\* a cycle of the treatments loop is in flight with carried records while the
\* entries loop has returned with another dateFrom
C13_Witness ==
    /\ InFlight(treatmentsCycle)
    /\ treatmentsLoop.returned # <<>>
    /\ treatmentsLoop.state.previousRecords # <<>>
    /\ EReturned
    /\ entriesLoop.state.dateFrom # treatmentsLoop.state.dateFrom
    /\ entriesLoop.state.dateFrom # InitialDateFrom

\* C14: no glucose record a treatments cycle fetched is in the batch handed
\* to the identifier and the basal merger, in what is carried forward, or in
\* the date the cursor is taken from; every entry of an entries cycle is the
\* entry of a glucose record it fetched, one for each.
C14_GlucoseOnlyInEntries ==
    /\ treatmentsCycle.identified # <<>> =>
          /\ \A r \in SeqToSet(treatmentsCycle.records) : ~IsGlucose(r)
          /\ \A r \in SeqToSet(treatmentsCycle.identified[1].context) :
                ~IsGlucose(r)
          /\ treatmentsCycle.latestRecordDate =
                IF {r \in SeqToSet(treatmentsCycle.fetched) : ~IsGlucose(r)} = {}
                THEN NoDate
                ELSE MaxAt({r \in SeqToSet(treatmentsCycle.fetched) :
                               ~IsGlucose(r)})
    /\ TReturned => \A r \in TNextPrevious : ~IsGlucose(r)
    /\ entriesCycle.pc \in {"reporting", "returned"} =>
          /\ SeqToSet(entriesCycle.entries)
                = {GlucoseRecordToEntry(r) : r \in EGlucose}
          /\ Len(entriesCycle.entries) = Cardinality(EGlucose)

\* a treatments cycle fetched a glucose record later than every other record
\* it fetched, and an entries cycle fetched a record that is not glucose
C14_Witness ==
    /\ TReturned
    /\ TFresh # <<>>
    /\ \E g \in SeqToSet(treatmentsCycle.fetched) :
          /\ IsGlucose(g)
          /\ \A r \in SeqToSet(TFresh) : r.at < g.at
    /\ EReturned
    /\ EGlucose # {}
    /\ \E r \in SeqToSet(entriesCycle.fetched) : ~IsGlucose(r)

\* ------------------------------------------------------- the cursor again
\* the records fetched in the cycle whose resolution did not fail
TResolvedFresh ==
    SeqToSet(TFresh)
        \ SeqToSet(treatmentsCycle.identified[1].unprocessedRecords)

\* C15 (as claimed): the next dateFrom is taken from the records resolved in
\* the cycle only: it is the latest date of those plus one second, or the
\* dateFrom of the cycle when there is none.
C15_CursorFromResolvedOnly ==
    TReturned =>
        treatmentsLoop.state.dateFrom =
            IF TResolvedFresh = {} THEN treatmentsCycle.args.dateFrom
            ELSE MaxAt(TResolvedFresh) + 1

\* C15 (amended): the next dateFrom is taken from every record other than
\* glucose the cycle fetched, resolved or not, so it is past every fetched
\* record whose resolution failed; the records carried forward into the
\* cycle do not count.
C15_CursorFromFetchedOnly ==
    TReturned =>
        /\ treatmentsLoop.state.dateFrom =
              NextDateFrom(LatestRecordDate(TFresh),
                           treatmentsCycle.args.dateFrom)
        /\ \A r \in treatmentsCycle.failing \cap SeqToSet(TFresh) :
              treatmentsLoop.state.dateFrom > r.at
        /\ \A r \in TPrevious :
              treatmentsLoop.state.dateFrom > r.at

\* the latest record fetched failed, next to one that resolved and one that
\* was carried forward
C15_Witness ==
    /\ TReturned
    /\ TPrevious # {}
    /\ TResolvedFresh # {}
    /\ \E r \in treatmentsCycle.failing \cap SeqToSet(TFresh) :
          \A q \in TResolvedFresh : q.at < r.at

\* ------------------------------------------------------- the context
\* C16: the context identifyTreatments hands to the resolver is the batch it
\* was called with, records of every kind included.
C16_ResolverSeesFullBatch ==
    idOut # <<>> => idOut[1].context = idIn.records

\* ------------------------------------------------------- the life of a record
\* C17 (as claimed): a record is in the batch of the cycle that fetched it
\* and, only if it failed there, in the batch of the cycle after it; no cycle
\* has in its batch a record that an earlier cycle already tried again.
C17_AtMostTwoCycles ==
    /\ treatmentsCycle.identified # <<>> => treatmentsCycle.handedBefore = {}
    /\ TReturned =>
          TNextPrevious \subseteq treatmentsCycle.failing \cap SeqToSet(TFresh)

\* C17 (amended): counting the cycles that return, a record is in the batch
\* of the cycle that fetched it and, only if it failed there, in the batch of
\* the next one; no cycle has in its batch a record that an earlier cycle
\* that returned already tried again.
C17_AtMostTwoReturnedCycles ==
    /\ treatmentsCycle.identified # <<>> =>
          treatmentsCycle.handedInReturned = {}
    /\ TReturned =>
          TNextPrevious \subseteq treatmentsCycle.failing \cap SeqToSet(TFresh)

\* a record tried again by a cycle that rejected is tried once more by the
\* cycle after it, fails there, and is not handed on when that cycle returns
C17_Witness ==
    /\ TReturned
    /\ treatmentsCycle.handedBefore # {}
    /\ treatmentsCycle.handedBefore \subseteq treatmentsCycle.failing
    /\ TNextPrevious # {}
    /\ TNextPrevious \cap TPrevious = {}

\* ------------------------------------------------------- the sink profile
\* C18: no write of the profile by the treatments cycle or by the pump
\* settings cycle replaces a profile the other one has written since the
\* writer loaded its own, losing that change.
C18_NoLostUpdate ==
    /\ ~treatmentsCycle.overwrote
    /\ ~pumpCycle.overwrote

\* ------------------------------------------------------- dateTo
\* the arguments other than the window are those startSynchronization got
ArgsAsSupplied(args) ==
    /\ args.diasendUsername = config.diasendUsername
    /\ args.diasendPassword = config.diasendPassword

DateToAsSupplied(looper, cycle) ==
    /\ cycle.first => cycle.args.dateTo = config.dateTo
    /\ looper.returned # <<>> => looper.returned[1].dateTo = NoDate
    /\ cycle.pc # "idle" => ArgsAsSupplied(cycle.args)
    /\ looper.state # <<>> => ArgsAsSupplied(looper.state)

\* C19 (as claimed): the dateTo the caller supplied bounds the first cycle of
\* each loop only: what a cycle returns has no dateTo, no later cycle is
\* called with one, and the other arguments reach every cycle unchanged.
C19_DateToInFirstCycleOnly ==
    /\ DateToAsSupplied(entriesLoop, entriesCycle)
    /\ DateToAsSupplied(treatmentsLoop, treatmentsCycle)
    /\ (entriesCycle.pc # "idle" /\ ~entriesCycle.first) =>
          entriesCycle.args.dateTo = NoDate
    /\ (treatmentsCycle.pc # "idle" /\ ~treatmentsCycle.first) =>
          treatmentsCycle.args.dateTo = NoDate
    /\ treatmentsCycle.pc # "idle" =>
          treatmentsCycle.args.nightscoutProfileName
              = config.nightscoutProfileName

\* C19 (amended): what a cycle returns has no dateTo, so a cycle that follows
\* one that returned is called without one; until a cycle of the loop has
\* returned, every cycle is called with the dateTo the caller supplied; the
\* other arguments reach every cycle unchanged.
C19_DateToUntilFirstReturn ==
    /\ DateToAsSupplied(entriesLoop, entriesCycle)
    /\ DateToAsSupplied(treatmentsLoop, treatmentsCycle)
    /\ (InFlight(entriesCycle) /\ entriesLoop.returned # <<>>) =>
          entriesCycle.args.dateTo = NoDate
    /\ (InFlight(treatmentsCycle) /\ treatmentsLoop.returned # <<>>) =>
          treatmentsCycle.args.dateTo = NoDate
    /\ entriesCycle.pc # "idle" =>
          /\ entriesCycle.args.dateTo \in {NoDate, config.dateTo}
          /\ entriesCycle.args.dateTo = entriesLoop.state.dateTo
                \/ EReturned
    /\ treatmentsCycle.pc # "idle" =>
          /\ treatmentsCycle.args.dateTo \in {NoDate, config.dateTo}
          /\ treatmentsCycle.args.dateTo = treatmentsLoop.state.dateTo
                \/ TReturned
          /\ treatmentsCycle.args.nightscoutProfileName
                = config.nightscoutProfileName

\* both loops are in a cycle that follows one that returned, called without
\* the dateTo the caller supplied
C19_Witness ==
    /\ config.dateTo # NoDate
    /\ InFlight(entriesCycle)
    /\ entriesLoop.returned # <<>>
    /\ entriesCycle.args.dateTo = NoDate
    /\ InFlight(treatmentsCycle)
    /\ treatmentsLoop.returned # <<>>
    /\ treatmentsCycle.args.dateTo = NoDate

\* ------------------------------------------------------- early failures
\* C20: a treatments cycle in which the credentials check, the fetch or the
\* profile load raises has called neither the treatments handler nor the
\* profile handler; an entries cycle in which the credentials check or the
\* fetch raises has not called the entries handler.
C20_NoReportAfterEarlyFailure ==
    /\ (treatmentsCycle.pc = "rejected"
          /\ treatmentsCycle.failedAt \in {"credentials", "fetch", "profileLoad"}) =>
          /\ treatmentsCycle.treatmentsCall = "none"
          /\ treatmentsCycle.profileCall = "none"
          /\ treatmentsCycle.updatedProfile = <<>>
    /\ (entriesCycle.pc = "rejected"
          /\ entriesCycle.failedAt \in {"credentials", "fetch"}) =>
          entriesCycle.entriesCall = "none"
    /\ treatmentsCycle.pc = "rejected" =>
          (treatmentsCycle.failedAt = "report")
              = (treatmentsCycle.treatmentsCall # "none")
    /\ entriesCycle.pc = "rejected" =>
          (entriesCycle.failedAt = "report")
              = (entriesCycle.entriesCall # "none")

\* the profile load failed with treatments identified, and the fetch of the
\* entries loop failed
C20_Witness ==
    /\ treatmentsCycle.pc = "rejected"
    /\ treatmentsCycle.failedAt = "profileLoad"
    /\ treatmentsCycle.identified[1].treatments # <<>>
    /\ treatmentsCycle.treatmentsCall = "none"
    /\ entriesCycle.pc = "rejected"
    /\ entriesCycle.failedAt = "fetch"
    /\ entriesCycle.entriesCall = "none"
====
